---- MODULE Spec2Model ----
(***************************************************************************)
(* The pooled database layer of src/database/connect_db.py: the global     *)
(* singleton pool (get_connection_pool / close_connection_pool), the two   *)
(* scoped acquisitions (get_db_connection, get_db_transaction) and the     *)
(* retry executor (execute_with_retry).                                    *)
(*                                                                         *)
(* Every asyncio task is a record task[c]; one action is one run of a task *)
(* between two suspension points (awaits that really suspend).  The        *)
(* asyncpg pool is the environment: it is modelled by what asyncpg.Pool    *)
(* does for the calls the source makes (acquire, release, close, the       *)
(* transaction context manager, the inactive-connection timer that         *)
(* max_inactive_connection_lifetime arms).                                 *)
(***************************************************************************)
EXTENDS Integers, Sequences, FiniteSets, TLC

(* ---------------------------------------------------------------- bounds *)
\* Concurrent tasks of the general specification.
NCallers == 2
\* Pools asyncpg.create_pool may hand out in one run (creation then fails).
MaxPools == 2
\* Largest max_retries an execute_with_retry call is given.
MaxRetriesArg == 4
\* Largest retry_delay (in seconds) an execute_with_retry call is given.
MaxDelayArg == 2

\* Concurrent tasks using one MCPClient.
NClients == 2
\* Largest settings.mcp.retry_attempts of a run.
MaxRetryAttempts == 3
\* Time units a blocked caller is followed for.
MaxWait == 2

(* ----------------------------------------------------- program constants *)
\* DB_MIN_CONNECTIONS / DB_MAX_CONNECTIONS as configured for the runs here.
MIN_CONNECTIONS == 1
MAX_CONNECTIONS == 2

\* settings.mcp.retry_attempts as shipped.
RETRY_ATTEMPTS == 3

NoPool == 0
NoCaller == 0
NoConn == 0

Holders == 1..MAX_CONNECTIONS
PoolIds == 1..MaxPools
\* Tasks of the general specification, of the retry specification, and of
\* the scenario with more transactions than connections.
Callers == 1..NCallers
RetryCallers == {1}
TxCallers == 1..(MAX_CONNECTIONS + 1)
AllCallers == Callers \cup RetryCallers \cup TxCallers
McpCallers == 1..NClients

(* ------------------------------------------------------------ exceptions *)
\* An exception in flight: its class and the class of its __cause__.
NoExc == [kind |-> "none", from |-> "none"]
Raised(k) == [kind |-> k, from |-> "none"]
RaisedFrom(k, e) == [kind |-> k, from |-> e.kind]
Returned == [kind |-> "ok", from |-> "none"]

\* asyncpg.PostgresConnectionError derives from asyncpg.PostgresError;
\* asyncpg.InterfaceError does not.
IsPostgresError(k) == k \in {"PostgresError", "PostgresConnectionError"}
\* CancelledError is a BaseException, every other class here an Exception.
IsException(k) == k \notin {"none", "ok", "CancelledError"}

\* The except clauses of get_db_connection.
WrapConnection(e) ==
    IF IsPostgresError(e.kind) THEN RaisedFrom("DatabaseError", e) ELSE e

\* The except clauses of get_db_transaction.
WrapTransaction(e) ==
    IF IsPostgresError(e.kind) THEN RaisedFrom("DatabaseError", e) ELSE e

WrapScoped(o, e) == IF o = "tx" THEN WrapTransaction(e) ELSE WrapConnection(e)

\* What a query may raise: a PostgresError that is no connection error,
\* the two classes execute_with_retry names, any other Exception.
QueryErrors == {"PostgresError", "PostgresConnectionError", "InterfaceError", "OtherError"}
\* What the body of an "async with" block of a caller raises: the except
\* clauses of the scoped blocks tell a PostgresError from any other
\* Exception, so one class of each.
BodyErrors == {"PostgresError", "OtherError"}

(* ----------------------------------------------------------------- state *)
VARIABLES
    connection_pool,   \* _connection_pool: NoPool or a pool id
    pool_lock,         \* _pool_lock: NoCaller or the task holding it
    pools,             \* the asyncpg.Pool objects created so far
    task,              \* the asyncio tasks using the database
    client,            \* the MCPClient object
    settings,          \* settings.mcp
    mtask              \* the asyncio tasks using the MCP client

vars == <<connection_pool, pool_lock, pools, task, client, settings, mtask>>
clientVars == <<client, settings, mtask>>
dbVars == <<connection_pool, pool_lock, pools, task>>

UnbornPool == [state |-> "unborn", idle |-> {}, con |-> {}]

IdleTask ==
    [pc |-> "idle", op |-> "none", pool |-> NoPool,
     conn |-> NoConn, exc |-> NoExc, tx |-> "none", body |-> "none",
     result |-> NoExc, acq |-> 0, rel |-> 0, txBegins |-> 0, txEnds |-> 0,
     waited |-> FALSE, afterClose |-> FALSE, oneshot |-> FALSE,
     max_retries |-> 0, retry_delay |-> 0, attempt |-> 0,
     last_error |-> NoExc, sleeps |-> <<>>, fetches |-> 0,
     failK |-> 0, failKind |-> "none",
     fetched |-> "none", value |-> "none", elapsed |-> 0]

\* MCPClient.__init__.
NewClient ==
    [session |-> "None", transport |-> "None", available_tools |-> {},
     connected |-> FALSE, connection_lock |-> NoCaller]

\* A task before its call on the MCP client.
IdleCall ==
    [pc |-> "idle", op |-> "none", oneshot |-> FALSE,
     queued |-> FALSE, found |-> "none", attempt |-> 0, attempts |-> 0, sleeps |-> <<>>,
     fetched |-> {}, result |-> "none", closeRaised |-> FALSE,
     tool |-> "none", requests |-> 0, listing |-> {}, payload |-> "none",
     isError |-> FALSE, elapsed |-> 0,
     via |-> "direct", message |-> "none", cause |-> "none",
     ret |-> [raised |-> "none", success |-> "none", value |-> "none", error |-> "none"]]

\* The MCP client as constructed, with the shipped settings.
ClientStart ==
    /\ client = NewClient
    /\ settings = [retry_attempts |-> RETRY_ATTEMPTS]
    /\ mtask = [c \in McpCallers |-> IdleCall]

Init ==
    /\ connection_pool = NoPool
    /\ pool_lock = NoCaller
    /\ pools = [p \in PoolIds |-> UnbornPool]
    /\ task = [c \in AllCallers |-> IdleTask]
    /\ ClientStart

\* A finished call is observed by its caller before any other task runs
\* (Reset touches only the finished task's own record); the calls of a
\* one-shot task stay finished.
Quiet == \A d \in AllCallers : task[d].pc = "done" => task[d].oneshot
At(c, l) == task[c].pc = l /\ Quiet

NumPools == Cardinality({p \in PoolIds : pools[p].state # "unborn"})
SomeCloseCompleted == \E p \in PoolIds : pools[p].state = "closed"

(* ------------------------------------------------- execute_with_retry *)
\* A retry clause that catches every Exception.
IsRetryableAnyException(k) == k \notin {"none", "ok", "CancelledError"}

\* The except clause "except (PostgresConnectionError, InterfaceError)".
IsRetryable(k) == k \in {"PostgresConnectionError", "InterfaceError"}

\* The argument of asyncio.sleep after the failed attempt `attempt`.
SleepDelay(retry_delay, attempt) == retry_delay * (attempt + 1)

\* A health check that catches database errors only.
HealthCatchesPostgresOnly(k) == k \in {"PostgresError", "PostgresConnectionError"}

\* health_check: "except Exception".
HealthCatches(k) == k \notin {"none", "ok", "CancelledError"}

\* health_check: "return result == 1".
HealthValue(fetched) == IF fetched = "one" THEN "True" ELSE "False"

\* The task after its scoped block ended with e (NoExc: it returned); the
\* block's locals are gone.
\* For get_db_connection / get_db_transaction users the outcome is the
\* task's result; for execute_with_retry the except clauses of its loop
\* decide; for health_check its except clause turns every Exception into
\* the value False.
Finish(t, e) ==
    LET u == [t EXCEPT !.pool = NoPool, !.waited = FALSE, !.afterClose = FALSE] IN
    IF t.op = "health"
    THEN IF e = NoExc
         THEN [u EXCEPT !.pc = "done", !.result = Returned,
                        !.value = HealthValue(t.fetched)]
         ELSE IF HealthCatches(e.kind)
         THEN [u EXCEPT !.pc = "done", !.result = Returned, !.value = "False"]
         ELSE [u EXCEPT !.pc = "done", !.result = e]
    ELSE IF t.op # "retry"
    THEN [u EXCEPT !.pc = "done", !.result = IF e = NoExc THEN Returned ELSE e]
    ELSE IF e = NoExc
    THEN [u EXCEPT !.pc = "done", !.result = Returned]
    ELSE IF IsRetryable(e.kind)
    THEN IF t.attempt < t.max_retries - 1
         THEN [u EXCEPT !.pc = "sleep", !.last_error = e]
         ELSE [u EXCEPT !.pc = "done", !.last_error = e,
                        !.result = RaisedFrom("DatabaseError", e)]
    ELSE IF IsException(e.kind)
    THEN [u EXCEPT !.pc = "done", !.result = RaisedFrom("DatabaseError", e)]
    ELSE [u EXCEPT !.pc = "done", !.result = e]

(* ---------------------------------------------------- get_connection_pool *)
\* The lock without the second check.
InnerCheckSkipped == TRUE

\* The second "if _connection_pool is None", under the lock.
InnerCheckNone == connection_pool = NoPool

\* A scoped block is entered by the task whose record is t: it calls
\* get_connection_pool, which runs to its first suspension.  The pool
\* exists and is returned; or the lock is free, the task takes it and
\* starts creating; or the task queues on the lock.
EnterScoped(c, t) ==
    /\ IF connection_pool # NoPool
       THEN /\ task' = [task EXCEPT ![c] = [t EXCEPT !.pc = "acquire",
                                                    !.pool = connection_pool]]
            /\ UNCHANGED pool_lock
       ELSE IF pool_lock = NoCaller
       THEN /\ pool_lock' = c
            /\ task' = [task EXCEPT ![c] = [t EXCEPT !.pc = "creating"]]
       ELSE /\ task' = [task EXCEPT ![c] = [t EXCEPT !.pc = "lockwait",
                                                    !.waited = TRUE]]
            /\ UNCHANGED pool_lock
    /\ UNCHANGED <<connection_pool, pools>>

get_db_connection(c) ==
    /\ At(c, "idle")
    /\ EnterScoped(c, [task[c] EXCEPT !.op = "conn", !.afterClose = SomeCloseCompleted])
    /\ UNCHANGED clientVars

get_db_transaction(c) ==
    /\ At(c, "idle")
    /\ EnterScoped(c, [task[c] EXCEPT !.op = "tx", !.afterClose = SomeCloseCompleted])
    /\ UNCHANGED clientVars

health_check(c) ==
    /\ At(c, "idle")
    /\ EnterScoped(c, [task[c] EXCEPT !.op = "health", !.afterClose = SomeCloseCompleted])
    /\ UNCHANGED clientVars

\* A task queued on the lock gets it and re-checks.
LockAcquired(c) ==
    /\ At(c, "lockwait")
    /\ pool_lock = NoCaller
    /\ IF InnerCheckNone
       THEN /\ pool_lock' = c
            /\ task' = [task EXCEPT ![c] = [@ EXCEPT !.pc = "creating"]]
       ELSE /\ task' = [task EXCEPT ![c] = [@ EXCEPT !.pc = "acquire",
                                                    !.pool = connection_pool]]
            /\ UNCHANGED pool_lock
    /\ UNCHANGED <<connection_pool, pools>>
    /\ UNCHANGED clientVars

(* ------------------------------------------------ _create_connection_pool *)
\* asyncpg.create_pool succeeds; the new pool is known to this task only
\* until it has been probed.
CreatePoolOk(c) ==
    /\ At(c, "creating")
    /\ NumPools < MaxPools
    /\ task' = [task EXCEPT ![c] = [@ EXCEPT !.pc = "probe"]]
    /\ UNCHANGED <<connection_pool, pool_lock, pools>>
    /\ UNCHANGED clientVars

\* asyncpg.create_pool raises: ConnectionPoolError, the lock is released.
CreatePoolFail(c) ==
    /\ At(c, "creating")
    /\ pool_lock' = NoCaller
    /\ task' = [task EXCEPT ![c] =
                   Finish(@, RaisedFrom("ConnectionPoolError", Raised("OtherError")))]
    /\ UNCHANGED <<connection_pool, pools>>
    /\ UNCHANGED clientVars

\* The SELECT 1 probe succeeds: the pool, with its min_size connections and
\* every holder idle, is assigned to the global, the lock is released and
\* get_connection_pool returns the global.
ProbeOk(c) ==
    /\ At(c, "probe")
    /\ NumPools < MaxPools
    /\ LET p == NumPools + 1 IN
       /\ pools' = [pools EXCEPT ![p] = [state |-> "open", idle |-> Holders,
                                         con |-> 1..MIN_CONNECTIONS]]
       /\ connection_pool' = p
       /\ task' = [task EXCEPT ![c] = [@ EXCEPT !.pc = "acquire", !.pool = p]]
    /\ pool_lock' = NoCaller
    /\ UNCHANGED clientVars

\* The probe raises: ConnectionPoolError; the new pool is dropped unclosed
\* and nothing refers to it any more.
ProbeFail(c) ==
    /\ At(c, "probe")
    /\ pool_lock' = NoCaller
    /\ task' = [task EXCEPT ![c] =
                   Finish(@, RaisedFrom("ConnectionPoolError", Raised("OtherError")))]
    /\ UNCHANGED <<connection_pool, pools>>
    /\ UNCHANGED clientVars

(* ----------------------------------------------------------- pool.acquire *)
\* A queue that keeps the holder it hands out.
TakeHolderKept(idle, h) == idle

\* The idle queue without the holder handed out.
TakeHolder(idle, h) == idle \ {h}

\* A holder is idle: the task gets its connection (connecting it first when
\* the holder has none).
AcquireOk(c) ==
    /\ At(c, "acquire")
    /\ LET p == task[c].pool IN
       /\ pools[p].state = "open"
       /\ \E h \in pools[p].idle :
            /\ pools' = [pools EXCEPT ![p] = [@ EXCEPT !.idle = TakeHolder(@, h),
                                                       !.con = @ \cup {h}]]
            /\ task' = [task EXCEPT ![c] =
                           [@ EXCEPT !.conn = h, !.acq = @ + 1, !.waited = FALSE,
                                     !.pc = IF task[c].op = "tx" THEN "begin" ELSE "body"]]
    /\ UNCHANGED <<connection_pool, pool_lock>>
    /\ UNCHANGED clientVars

\* The idle holder has no connection and connecting fails: the holder goes
\* back, the error passes the except clauses, nothing is to be released.
AcquireConnectFail(c) ==
    /\ At(c, "acquire")
    /\ LET p == task[c].pool IN
       /\ pools[p].state = "open"
       /\ pools[p].idle \ pools[p].con # {}
       /\ task' = [task EXCEPT ![c] =
                      Finish(@, WrapScoped(task[c].op, Raised("OtherError")))]
    /\ UNCHANGED <<connection_pool, pool_lock, pools>>
    /\ UNCHANGED clientVars

\* The pool is closing or closed: asyncpg raises InterfaceError.
AcquireClosed(c) ==
    /\ At(c, "acquire")
    /\ pools[task[c].pool].state \in {"closing", "closed"}
    /\ task' = [task EXCEPT ![c] =
                   Finish(@, WrapScoped(task[c].op, Raised("InterfaceError")))]
    /\ UNCHANGED <<connection_pool, pool_lock, pools>>
    /\ UNCHANGED clientVars

\* Every holder is checked out: pool.acquire() is called without a timeout
\* and get_db_connection takes no deadline, so the task stays suspended
\* while time passes.
AcquireWait(c) ==
    /\ At(c, "acquire")
    /\ pools[task[c].pool].state = "open"
    /\ pools[task[c].pool].idle = {}
    /\ task[c].elapsed < MaxWait
    /\ task' = [task EXCEPT ![c] = [@ EXCEPT !.elapsed = @ + 1]]
    /\ UNCHANGED <<connection_pool, pool_lock, pools>>
    /\ UNCHANGED clientVars

(* ------------------------------------------------------ conn.transaction *)
\* Transaction.__aenter__: BEGIN.
TxBeginOk(c) ==
    /\ At(c, "begin")
    /\ task' = [task EXCEPT ![c] = [@ EXCEPT !.pc = "body", !.tx = "started",
                                             !.txBegins = @ + 1]]
    /\ UNCHANGED <<connection_pool, pool_lock, pools>>
    /\ UNCHANGED clientVars

\* BEGIN fails: no transaction was opened.
TxBeginFail(c) ==
    /\ At(c, "begin")
    /\ task' = [task EXCEPT ![c] =
                   [@ EXCEPT !.pc = "release",
                             !.exc = WrapTransaction(Raised("PostgresConnectionError"))]]
    /\ UNCHANGED <<connection_pool, pool_lock, pools>>
    /\ UNCHANGED clientVars

\* An exit that commits whatever the block did.
TxExitAlwaysCommits(e) == TRUE

\* Transaction.__aexit__ commits exactly when the block raised nothing.
TxExitCommits(e) == e = NoExc

(* -------------------------------------------------- the "async with" body *)
AfterBody(t, outcome, e) ==
    IF t.op = "tx" /\ t.tx = "started"
    THEN [t EXCEPT !.pc = "txexit", !.body = outcome, !.exc = e]
    ELSE [t EXCEPT !.pc = "release", !.body = outcome, !.exc = WrapScoped(t.op, e)]

BodyReturn(c) ==
    /\ At(c, "body")
    /\ task[c].op \in {"conn", "tx"}
    /\ task' = [task EXCEPT ![c] = AfterBody(@, "returned", NoExc)]
    /\ UNCHANGED <<connection_pool, pool_lock, pools>>
    /\ UNCHANGED clientVars

BodyRaise(c) ==
    /\ At(c, "body")
    /\ task[c].op \in {"conn", "tx"}
    /\ \E k \in BodyErrors :
         task' = [task EXCEPT ![c] = AfterBody(@, "raised", Raised(k))]
    /\ UNCHANGED <<connection_pool, pool_lock, pools>>
    /\ UNCHANGED clientVars

\* The caller is cancelled while the body is suspended.
BodyCancel(c) ==
    /\ At(c, "body")
    /\ task[c].op \in {"conn", "tx", "health"}
    /\ task' = [task EXCEPT ![c] = AfterBody(@, "cancelled", Raised("CancelledError"))]
    /\ UNCHANGED <<connection_pool, pool_lock, pools>>
    /\ UNCHANGED clientVars

\* health_check: "result = await conn.fetchval('SELECT 1')" answers 1, or
\* something else, or raises.
HealthFetch(c) ==
    /\ At(c, "body")
    /\ task[c].op = "health"
    /\ \/ \E v \in {"one", "other"} :
            task' = [task EXCEPT ![c] = AfterBody([@ EXCEPT !.fetched = v], "returned", NoExc)]
       \/ \E k \in BodyErrors :
            task' = [task EXCEPT ![c] = AfterBody(@, "raised", Raised(k))]
    /\ UNCHANGED <<connection_pool, pool_lock, pools>>
    /\ UNCHANGED clientVars

TxCommitOk(c) ==
    /\ At(c, "txexit")
    /\ TxExitCommits(task[c].exc)
    /\ task' = [task EXCEPT ![c] = [@ EXCEPT !.pc = "release", !.tx = "committed",
                                             !.txEnds = @ + 1]]
    /\ UNCHANGED <<connection_pool, pool_lock, pools>>
    /\ UNCHANGED clientVars

\* COMMIT fails: the transaction is over, the error leaves the block.
TxCommitFail(c) ==
    /\ At(c, "txexit")
    /\ TxExitCommits(task[c].exc)
    /\ task' = [task EXCEPT ![c] =
                   [@ EXCEPT !.pc = "release", !.tx = "failed", !.txEnds = @ + 1,
                             !.exc = WrapTransaction(Raised("PostgresError"))]]
    /\ UNCHANGED <<connection_pool, pool_lock, pools>>
    /\ UNCHANGED clientVars

TxRollback(c) ==
    /\ At(c, "txexit")
    /\ ~TxExitCommits(task[c].exc)
    /\ task' = [task EXCEPT ![c] =
                   [@ EXCEPT !.pc = "release", !.tx = "rolledback", !.txEnds = @ + 1,
                             !.exc = WrapTransaction(@)]]
    /\ UNCHANGED <<connection_pool, pool_lock, pools>>
    /\ UNCHANGED clientVars

(* ----------------------------------------------------------- pool.release *)
\* A release on the normal path only.
NeedsReleaseOnSuccessOnly(t) == t.conn # NoConn /\ t.exc = NoExc

\* The finally clause: "if conn is not None".
NeedsRelease(t) == t.conn # NoConn

\* release: the holder is idle again; keep tells whether the connection
\* survived (a broken or worn-out connection is closed, the error logged).
ReleaseStep(c, keep) ==
    /\ At(c, "release")
    /\ IF NeedsRelease(task[c])
       THEN LET p == task[c].pool
                h == task[c].conn IN
            /\ pools' = [pools EXCEPT ![p] =
                            [@ EXCEPT !.idle = @ \cup {h},
                                      !.con = IF keep THEN @ ELSE @ \ {h}]]
            /\ task' = [task EXCEPT ![c] =
                           Finish([@ EXCEPT !.conn = NoConn, !.rel = @ + 1,
                                            !.exc = NoExc], task[c].exc)]
       ELSE /\ keep
            /\ task' = [task EXCEPT ![c] = Finish([@ EXCEPT !.exc = NoExc], task[c].exc)]
            /\ UNCHANGED pools
    /\ UNCHANGED <<connection_pool, pool_lock>>
    /\ UNCHANGED clientVars

Release(c) == ReleaseStep(c, TRUE)
ReleaseDiscard(c) == NeedsRelease(task[c]) /\ ReleaseStep(c, FALSE)

\* The inactive-connection timer of an idle holder fires
\* (max_inactive_connection_lifetime > 0): asyncpg closes the connection.
InactiveExpire ==
    /\ Quiet
    /\ \E p \in PoolIds : \E h \in pools[p].idle \cap pools[p].con :
         /\ pools[p].state = "open"
         /\ pools' = [pools EXCEPT ![p] = [@ EXCEPT !.con = @ \ {h}]]
    /\ UNCHANGED <<connection_pool, pool_lock, task>>
    /\ UNCHANGED clientVars

(* --------------------------------------------------- close_connection_pool *)
\* "if _connection_pool is not None" fails: nothing to do.  Otherwise
\* _connection_pool.close() is called on the pool the global names now: the
\* pool stops handing out connections and waits for its holders.
close_connection_pool(c) ==
    /\ At(c, "idle")
    /\ IF connection_pool = NoPool
       THEN /\ task' = [task EXCEPT ![c] = Finish([@ EXCEPT !.op = "close"], NoExc)]
            /\ UNCHANGED pools
       ELSE /\ pools' = [pools EXCEPT ![connection_pool] =
                            [@ EXCEPT !.state = IF @ = "open" THEN "closing" ELSE @]]
            /\ task' = [task EXCEPT ![c] = [@ EXCEPT !.op = "close", !.pc = "closewait",
                                                     !.pool = connection_pool]]
    /\ UNCHANGED <<connection_pool, pool_lock>>
    /\ UNCHANGED clientVars

\* Every holder was released: close() returns and the finally clause
\* resets the global.
CloseFinish(c) ==
    /\ At(c, "closewait")
    /\ LET p == task[c].pool IN
       /\ pools[p].idle = Holders
       /\ pools' = [pools EXCEPT ![p] = [state |-> "closed", idle |-> Holders,
                                         con |-> {}]]
    /\ connection_pool' = NoPool
    /\ task' = [task EXCEPT ![c] = Finish(@, NoExc)]
    /\ UNCHANGED pool_lock
    /\ UNCHANGED clientVars

(* ------------------------------------------------------ execute_with_retry *)
\* The call, with its arguments and the failure injector of the run: the
\* query fails with failKind on its first failK executions, then succeeds.
\* range(max_retries) is empty for 0: the final raise, from last_error None.
execute_with_retry(c) ==
    /\ At(c, "idle")
    /\ \E mr \in 0..MaxRetriesArg, rd \in 1..MaxDelayArg, k \in 0..MaxRetriesArg :
       \E kind \in IF k = 0 THEN {"none"} ELSE QueryErrors :
         LET t == [task[c] EXCEPT !.op = "retry", !.max_retries = mr,
                                  !.retry_delay = rd, !.failK = k, !.failKind = kind]
         IN IF mr = 0
            THEN /\ task' = [task EXCEPT ![c] =
                                [t EXCEPT !.pc = "done",
                                          !.result = RaisedFrom("DatabaseError", NoExc)]]
                 /\ UNCHANGED <<connection_pool, pool_lock, pools>>
            ELSE EnterScoped(c, t)
    /\ UNCHANGED clientVars

\* "return await conn.fetch(query, *args)" under the injector.
Fetch(c) ==
    /\ At(c, "body")
    /\ task[c].op = "retry"
    /\ task' = [task EXCEPT ![c] =
                   [@ EXCEPT !.pc = "release", !.fetches = @ + 1,
                             !.body = IF task[c].fetches < task[c].failK
                                      THEN "raised" ELSE "returned",
                             !.exc = IF task[c].fetches < task[c].failK
                                     THEN WrapConnection(Raised(task[c].failKind))
                                     ELSE NoExc]]
    /\ UNCHANGED <<connection_pool, pool_lock, pools>>
    /\ UNCHANGED clientVars

\* asyncio.sleep between two attempts, then the next iteration of the loop.
RetrySleep(c) ==
    /\ At(c, "sleep")
    /\ EnterScoped(c, [task[c] EXCEPT
                          !.body = "none",
                          !.sleeps = Append(@, SleepDelay(task[c].retry_delay,
                                                          task[c].attempt)),
                          !.attempt = @ + 1])
    /\ UNCHANGED clientVars

\* The caller has seen the outcome and goes on to its next call.
Reset(c) ==
    /\ task[c].pc = "done"
    /\ ~task[c].oneshot
    /\ task' = [task EXCEPT ![c] = IdleTask]
    /\ UNCHANGED <<connection_pool, pool_lock, pools>>
    /\ UNCHANGED clientVars

(* ------------------------------------------------------------- MCPClient *)
\* The tool lists the server may answer list_tools with, and the names a
\* caller may ask for ("run_command" is in none of the lists).
Catalogs == {{"list_documents"}, {"list_documents", "get_document_content"}}
ToolNames == {"list_documents", "get_document_content", "run_command"}

\* As Quiet and At, for the tasks using the MCP client.
ClientQuiet == \A d \in McpCallers : mtask[d].pc = "done" => mtask[d].oneshot
CallAt(c, l) == mtask[c].pc = l /\ ClientQuiet

\* A client that takes a session object for a connection.
IsConnectedSessionOnly == client.session # "None"

\* A client that never believes it is connected.
IsConnectedNever == FALSE

\* The property is_connected.
IsConnected == client.connected /\ client.session # "None"

\* A lock that lets every caller in.
LockFreeAlways == TRUE

\* "async with self._connection_lock" does not have to wait.
LockFree == client.connection_lock = NoCaller

\* A constant delay between attempts.
BackoffConstant(attempt) == 1

\* "await asyncio.sleep(2 ** attempt)".
BackoffDelay(attempt) == 2 ^ attempt

\* A refresh that leaves the catalog as it was.
StoreCatalogNever(old, cat) == old

\* _refresh_tools: "self.available_tools = [tool.name for tool in result.tools]".
StoreCatalog(old, cat) == cat

\* _attempt_connection up to its first await: a new transport and a new
\* session replace whatever the client referred to; initialize() is awaited.
StartAttempt(c, t) ==
    /\ client' = [client EXCEPT !.connection_lock = c, !.transport = "created",
                                !.session = "created"]
    /\ mtask' = [mtask EXCEPT ![c] = [t EXCEPT !.pc = "initialize", !.attempts = @ + 1]]

\* connect() once it has the lock: return if connected; return as well when
\* range(retry_attempts) is empty; otherwise the first attempt.
ConnectLocked(c, t) ==
    IF IsConnected
    THEN /\ mtask' = [mtask EXCEPT ![c] = [t EXCEPT !.pc = "done", !.result = "ok",
                                                    !.found = "connected"]]
         /\ UNCHANGED client
    ELSE IF settings.retry_attempts <= 0
    THEN /\ mtask' = [mtask EXCEPT ![c] = [t EXCEPT !.pc = "done", !.result = "ok",
                                                    !.found = "disconnected"]]
         /\ UNCHANGED client
    ELSE StartAttempt(c, [t EXCEPT !.found = "disconnected"])

connect(c) ==
    /\ CallAt(c, "idle")
    /\ IF LockFree
       THEN ConnectLocked(c, [mtask[c] EXCEPT !.op = "connect"])
       ELSE /\ mtask' = [mtask EXCEPT ![c] = [@ EXCEPT !.op = "connect", !.pc = "lockwait",
                                                    !.queued = TRUE]]
            /\ UNCHANGED client
    /\ UNCHANGED <<settings, dbVars>>

\* ensure_connected: "if not self.is_connected: await self.connect()".
ensure_connected(c) ==
    /\ CallAt(c, "idle")
    /\ IF IsConnected
       THEN /\ mtask' = [mtask EXCEPT ![c] =
                            [@ EXCEPT !.op = "ensure_connected", !.pc = "done",
                                      !.result = "ok", !.found = "connected"]]
            /\ UNCHANGED client
       ELSE IF LockFree
       THEN ConnectLocked(c, [mtask[c] EXCEPT !.op = "connect", !.via = "ensure_connected"])
       ELSE /\ mtask' = [mtask EXCEPT ![c] = [@ EXCEPT !.op = "connect", !.pc = "lockwait",
                                                    !.via = "ensure_connected",
                                                    !.queued = TRUE]]
            /\ UNCHANGED client
    /\ UNCHANGED <<settings, dbVars>>

\* __aenter__: "await self.connect(); return self".
aenter(c) ==
    /\ CallAt(c, "idle")
    /\ IF LockFree
       THEN ConnectLocked(c, [mtask[c] EXCEPT !.op = "connect", !.via = "aenter"])
       ELSE /\ mtask' = [mtask EXCEPT ![c] = [@ EXCEPT !.op = "connect", !.pc = "lockwait",
                                                    !.via = "aenter", !.queued = TRUE]]
            /\ UNCHANGED client
    /\ UNCHANGED <<settings, dbVars>>

\* A connect() queued on _connection_lock gets it.
ConnectLockAcquired(c) ==
    /\ CallAt(c, "lockwait")
    /\ mtask[c].op = "connect"
    /\ LockFree
    /\ ConnectLocked(c, mtask[c])
    /\ UNCHANGED <<settings, dbVars>>

\* The except clause of connect(): sleep and go on, or, after the last
\* attempt, raise MCPConnectionError (the lock is released).
AttemptFailed(c) ==
    IF mtask[c].attempt < settings.retry_attempts - 1
    THEN /\ mtask' = [mtask EXCEPT ![c] = [@ EXCEPT !.pc = "backoff"]]
         /\ UNCHANGED client
    ELSE /\ mtask' = [mtask EXCEPT ![c] = [@ EXCEPT !.pc = "done",
                                                    !.result = "MCPConnectionError"]]
         /\ client' = [client EXCEPT !.connection_lock = NoCaller]

\* session.initialize() returns; _refresh_tools awaits list_tools.
InitializeOk(c) ==
    /\ CallAt(c, "initialize")
    /\ client' = [client EXCEPT !.session = "initialized"]
    /\ mtask' = [mtask EXCEPT ![c] = [@ EXCEPT !.pc = "list_tools"]]
    /\ UNCHANGED <<settings, dbVars>>

\* session.initialize() raises or wait_for times out.
InitializeFail(c) ==
    /\ CallAt(c, "initialize")
    /\ AttemptFailed(c)
    /\ UNCHANGED <<settings, dbVars>>

\* list_tools answers: the catalog is stored, _attempt_connection returns
\* and connect() sets _connected and leaves the lock.
ListToolsOk(c) ==
    /\ CallAt(c, "list_tools")
    /\ \E cat \in Catalogs :
         /\ client' = [client EXCEPT !.available_tools = StoreCatalog(@, cat),
                                     !.connected = TRUE,
                                     !.connection_lock = NoCaller]
         /\ mtask' = [mtask EXCEPT ![c] = [@ EXCEPT !.pc = "done", !.result = "ok",
                                                    !.fetched = cat]]
    /\ UNCHANGED <<settings, dbVars>>

\* list_tools raises: MCPToolError out of _refresh_tools.
ListToolsFail(c) ==
    /\ CallAt(c, "list_tools")
    /\ AttemptFailed(c)
    /\ UNCHANGED <<settings, dbVars>>

\* The sleep is over: the next attempt.
BackoffElapsed(c) ==
    /\ CallAt(c, "backoff")
    /\ StartAttempt(c, [mtask[c] EXCEPT !.sleeps = Append(@, BackoffDelay(mtask[c].attempt)),
                                        !.attempt = @ + 1])
    /\ UNCHANGED <<settings, dbVars>>

(* --------------------------------------------------------- _refresh_tools *)
\* _refresh_tools called on its own (the lock is not taken): without a
\* session MCPConnectionError, otherwise list_tools is awaited.
refresh_tools(c) ==
    /\ CallAt(c, "idle")
    /\ mtask' = [mtask EXCEPT ![c] =
                    IF client.session = "None"
                    THEN [@ EXCEPT !.op = "refresh_tools", !.pc = "done",
                                   !.result = "MCPConnectionError"]
                    ELSE [@ EXCEPT !.op = "refresh_tools", !.pc = "refresh"]]
    /\ UNCHANGED <<client, settings, dbVars>>

\* list_tools answers: the catalog is stored.
RefreshOk(c) ==
    /\ CallAt(c, "refresh")
    /\ \E cat \in Catalogs :
         /\ client' = [client EXCEPT !.available_tools = StoreCatalog(@, cat)]
         /\ mtask' = [mtask EXCEPT ![c] = [@ EXCEPT !.pc = "done", !.result = "ok",
                                                    !.fetched = cat]]
    /\ UNCHANGED <<settings, dbVars>>

\* list_tools raises: logged, MCPToolError; nothing else is touched.
RefreshFail(c) ==
    /\ CallAt(c, "refresh")
    /\ mtask' = [mtask EXCEPT ![c] = [@ EXCEPT !.pc = "done", !.result = "MCPToolError"]]
    /\ UNCHANGED <<client, settings, dbVars>>

(* ------------------------------------------------------------ disconnect *)
\* disconnect() after the session part, the client being cl: close the
\* transport if there is one, then clear the flag and the catalog and leave
\* the lock.
DisconnectTail(c, t, cl) ==
    IF cl.transport # "None"
    THEN /\ client' = cl
         /\ mtask' = [mtask EXCEPT ![c] = [t EXCEPT !.pc = "transport_close"]]
    ELSE /\ client' = [cl EXCEPT !.connected = FALSE, !.available_tools = {},
                                 !.connection_lock = NoCaller]
         /\ mtask' = [mtask EXCEPT ![c] = [t EXCEPT !.pc = "done", !.result = "ok"]]

\* disconnect() once it has the lock: "if self.session" awaits its close().
DisconnectLocked(c, t) ==
    IF client.session # "None"
    THEN /\ client' = [client EXCEPT !.connection_lock = c]
         /\ mtask' = [mtask EXCEPT ![c] = [t EXCEPT !.pc = "session_close"]]
    ELSE DisconnectTail(c, t, [client EXCEPT !.connection_lock = c])

disconnect(c) ==
    /\ CallAt(c, "idle")
    /\ IF LockFree
       THEN DisconnectLocked(c, [mtask[c] EXCEPT !.op = "disconnect"])
       ELSE /\ mtask' = [mtask EXCEPT ![c] = [@ EXCEPT !.op = "disconnect",
                                                    !.pc = "lockwait", !.queued = TRUE]]
            /\ UNCHANGED client
    /\ UNCHANGED <<settings, dbVars>>

\* A disconnect() queued on _connection_lock gets it.
DisconnectLockAcquired(c) ==
    /\ CallAt(c, "lockwait")
    /\ mtask[c].op = "disconnect"
    /\ LockFree
    /\ DisconnectLocked(c, mtask[c])
    /\ UNCHANGED <<settings, dbVars>>

\* A close that failed and left the reference in place.
SessionAfterFailedCloseKept(cl) == cl

\* "finally: self.session = None", also after close() raised.
SessionAfterFailedClose(cl) == [cl EXCEPT !.session = "None"]

\* session.close() returns; finally: self.session = None.
SessionCloseOk(c) ==
    /\ CallAt(c, "session_close")
    /\ DisconnectTail(c, mtask[c], [client EXCEPT !.session = "None"])
    /\ UNCHANGED <<settings, dbVars>>

\* session.close() raises: logged; finally: self.session = None.
SessionCloseFail(c) ==
    /\ CallAt(c, "session_close")
    /\ DisconnectTail(c, [mtask[c] EXCEPT !.closeRaised = TRUE],
                      SessionAfterFailedClose(client))
    /\ UNCHANGED <<settings, dbVars>>

\* transport.close() returns; finally: self.transport = None.
TransportCloseOk(c) ==
    /\ CallAt(c, "transport_close")
    /\ DisconnectTail(c, mtask[c], [client EXCEPT !.transport = "None"])
    /\ UNCHANGED <<settings, dbVars>>

\* transport.close() raises: logged; finally: self.transport = None.
TransportCloseFail(c) ==
    /\ CallAt(c, "transport_close")
    /\ DisconnectTail(c, [mtask[c] EXCEPT !.closeRaised = TRUE],
                      [client EXCEPT !.transport = "None"])
    /\ UNCHANGED <<settings, dbVars>>

(* ------------------------------------------------------------- call_tool *)
\* "return result.content[0].text", "return str(result.content[0])",
\* "return None".
ExtractPayload(content) ==
    IF content = "text" THEN "text" ELSE IF content = "other" THEN "str" ELSE "None"

\* A catalog check that lets every name pass.
ToolKnownAlways(name, tools) == TRUE

\* "if tool_name not in self.available_tools" does not fire.
ToolKnown(name, tools) == name \in tools

\* A call_tool_safe whose except clause names MCPToolError only.
SafeCatchesToolErrorOnly(kind) == kind = "MCPToolError"

\* call_tool_safe: "except Exception as e" catches whatever call_tool raises.
SafeCatches(kind) == kind \notin {"ok", "none"}

\* What the caller gets from a call_tool that ended as t records, by the
\* way the call was made.  Directly: the payload or the exception.
\* call_tool_safe: (True, result, None) or (False, None, str(e)).
\* get_documents_list: the parsed list, [] for no payload, for a payload
\* literal_eval rejects (taken to be every payload that is not the text
\* of a successful answer) and for every exception.
\* get_document_content: the text, None for no payload, for a text with
\* "error" or "not found" in it (taken to be the text of an isError
\* answer) and for every exception.
\* get_chat_history: the payload, None for no payload and for every
\* exception.
Surface(t) ==
    LET ok == t.result = "ok"
        v == [raised |-> "none", success |-> "none", value |-> "none", error |-> "none"] IN
    CASE t.via = "direct" ->
           IF ok THEN [v EXCEPT !.value = t.payload] ELSE [v EXCEPT !.raised = t.result]
      [] t.via = "call_tool_safe" ->
           IF ok THEN [v EXCEPT !.success = "True", !.value = t.payload, !.error = "None"]
           ELSE IF SafeCatches(t.result)
           THEN [v EXCEPT !.success = "False", !.value = "None", !.error = t.message]
           ELSE [v EXCEPT !.raised = t.result]
      [] t.via = "get_documents_list" ->
           IF ok /\ t.payload = "text" /\ ~t.isError
           THEN [v EXCEPT !.value = "list"] ELSE [v EXCEPT !.value = "[]"]
      [] t.via = "get_document_content" ->
           IF ok /\ t.payload = "text" /\ ~t.isError
           THEN [v EXCEPT !.value = "text"] ELSE [v EXCEPT !.value = "None"]
      [] t.via = "get_chat_history" ->
           IF ok /\ t.payload # "None"
           THEN [v EXCEPT !.value = t.payload] ELSE [v EXCEPT !.value = "None"]

\* call_tool has ended as t records: the caller's task is done.
CallDone(t) == [t EXCEPT !.pc = "done", !.ret = Surface(t)]

\* call_tool(name, ...) called by way of via, up to its await: the two
\* checks, then the request is sent.
CallToolEnter(c, via, name) ==
    /\ LET t == [mtask[c] EXCEPT !.op = "call_tool", !.tool = name, !.via = via] IN
         mtask' = [mtask EXCEPT ![c] =
            IF ~IsConnected
            THEN CallDone([t EXCEPT !.result = "MCPConnectionError",
                                    !.message = "Not connected to MCP server"])
            ELSE IF ~ToolKnown(name, client.available_tools)
            THEN CallDone([t EXCEPT !.result = "MCPToolError",
                                    !.message = "Tool not available. Available tools:",
                                    !.listing = client.available_tools])
            ELSE [t EXCEPT !.pc = "call", !.requests = @ + 1]]
    /\ UNCHANGED <<client, settings, dbVars>>

call_tool(c) ==
    /\ CallAt(c, "idle")
    /\ \E name \in ToolNames : CallToolEnter(c, "direct", name)

call_tool_safe(c) ==
    /\ CallAt(c, "idle")
    /\ \E name \in ToolNames : CallToolEnter(c, "call_tool_safe", name)

get_documents_list(c) ==
    /\ CallAt(c, "idle")
    /\ CallToolEnter(c, "get_documents_list", "list_documents")

get_document_content(c) ==
    /\ CallAt(c, "idle")
    /\ CallToolEnter(c, "get_document_content", "get_document_content")

get_chat_history(c) ==
    /\ CallAt(c, "idle")
    /\ CallToolEnter(c, "get_chat_history", "get_chat_history")

\* The server's CallToolResult arrives: its content (a TextContent, another
\* content, or none) and its isError flag.
CallToolResult(c) ==
    /\ CallAt(c, "call")
    /\ \E content \in {"text", "other", "none"}, err \in BOOLEAN :
         mtask' = [mtask EXCEPT ![c] =
                      CallDone([@ EXCEPT !.result = "ok", !.isError = err,
                                         !.payload = ExtractPayload(content)])]
    /\ UNCHANGED <<client, settings, dbVars>>

\* session.call_tool raises, for an error answer of the server or for a
\* broken or closed transport: MCPToolError in both cases, and nothing
\* else is done.
CallToolRaises(c) ==
    /\ CallAt(c, "call")
    /\ \E cause \in {"protocol", "transport"} :
         mtask' = [mtask EXCEPT ![c] =
                      CallDone([@ EXCEPT !.result = "MCPToolError", !.cause = cause,
                                         !.message = "Tool execution failed:"])]
    /\ UNCHANGED <<client, settings, dbVars>>

\* The response is outstanding: session.call_tool is awaited without a
\* timeout and call_tool takes no deadline, so the task stays suspended
\* while time passes.
CallWait(c) ==
    /\ CallAt(c, "call")
    /\ mtask[c].elapsed < MaxWait
    /\ mtask' = [mtask EXCEPT ![c] = [@ EXCEPT !.elapsed = @ + 1]]
    /\ UNCHANGED <<client, settings, dbVars>>

\* The caller has seen the outcome and goes on to its next call.
ClientReset(c) ==
    /\ mtask[c].pc = "done"
    /\ ~mtask[c].oneshot
    /\ mtask' = [mtask EXCEPT ![c] = IdleCall]
    /\ UNCHANGED <<client, settings, dbVars>>

(* ---------------------------------------------------------- specification *)
Next ==
    \/ \E c \in Callers : get_db_connection(c)
    \/ \E c \in Callers : get_db_transaction(c)
    \/ \E c \in Callers : close_connection_pool(c)
    \/ \E c \in Callers : health_check(c)
    \/ \E c \in Callers : HealthFetch(c)
    \/ \E c \in Callers : LockAcquired(c)
    \/ \E c \in Callers : CreatePoolOk(c)
    \/ \E c \in Callers : CreatePoolFail(c)
    \/ \E c \in Callers : ProbeOk(c)
    \/ \E c \in Callers : ProbeFail(c)
    \/ \E c \in Callers : AcquireOk(c)
    \/ \E c \in Callers : AcquireConnectFail(c)
    \/ \E c \in Callers : AcquireClosed(c)
    \/ \E c \in Callers : TxBeginOk(c)
    \/ \E c \in Callers : TxBeginFail(c)
    \/ \E c \in Callers : BodyReturn(c)
    \/ \E c \in Callers : BodyRaise(c)
    \/ \E c \in Callers : BodyCancel(c)
    \/ \E c \in Callers : TxCommitOk(c)
    \/ \E c \in Callers : TxCommitFail(c)
    \/ \E c \in Callers : TxRollback(c)
    \/ \E c \in Callers : Release(c)
    \/ \E c \in Callers : ReleaseDiscard(c)
    \/ \E c \in Callers : CloseFinish(c)
    \/ \E c \in Callers : Reset(c)
    \/ InactiveExpire

Spec == Init /\ [][Next]_vars

\* One execute_with_retry caller against a healthy pool: the only failures
\* are the injected failures of the query.
RetryNext ==
    \/ \E c \in RetryCallers : execute_with_retry(c)
    \/ \E c \in RetryCallers : CreatePoolOk(c)
    \/ \E c \in RetryCallers : ProbeOk(c)
    \/ \E c \in RetryCallers : AcquireOk(c)
    \/ \E c \in RetryCallers : Fetch(c)
    \/ \E c \in RetryCallers : Release(c)
    \/ \E c \in RetryCallers : RetrySleep(c)
    \/ \E c \in RetryCallers : Reset(c)

RetrySpec == Init /\ [][RetryNext]_vars

\* MAX_CONNECTIONS + 1 tasks, one transaction each (asyncio.gather), on a
\* healthy database; each body returns or raises after a finite time.
TxInit ==
    /\ connection_pool = NoPool
    /\ pool_lock = NoCaller
    /\ pools = [p \in PoolIds |-> UnbornPool]
    /\ task = [c \in AllCallers |-> [IdleTask EXCEPT !.oneshot = TRUE]]
    /\ ClientStart

TxStep(c) ==
    \/ get_db_transaction(c)
    \/ LockAcquired(c)
    \/ CreatePoolOk(c)
    \/ ProbeOk(c)
    \/ AcquireOk(c)
    \/ TxBeginOk(c)
    \/ BodyReturn(c)
    \/ BodyRaise(c)
    \/ TxCommitOk(c)
    \/ TxRollback(c)
    \/ Release(c)

TxNext == \E c \in TxCallers : TxStep(c)

\* The event loop runs every task that is ready.
TxSpec == TxInit /\ [][TxNext]_vars /\ \A c \in TxCallers : WF_vars(TxStep(c))

(* ------------------------------------------------------------ properties *)
InScope(t) == t.pc \in {"begin", "body", "txexit", "release"}
HeldBy(p) == {task[c].conn : c \in {d \in AllCallers : task[d].pool = p /\ task[d].conn # NoConn}}
CheckedOut(p) == Holders \ pools[p].idle
NoCloseYet == \A p \in PoolIds : pools[p].state \in {"unborn", "open"}

\* C1: every successful acquire of get_db_connection / get_db_transaction is
\* matched by exactly one release, on every exit path (return, raise,
\* cancellation): releases never exceed acquires, a task holds a connection
\* exactly while it has one acquire more than releases, a finished call has
\* as many releases as acquires, and a pool's checked-out holders are exactly
\* those held by tasks still inside their block.
ReleaseOncePerAcquire ==
    /\ \A c \in AllCallers :
         LET t == task[c] IN
         /\ t.rel <= t.acq
         /\ t.acq <= t.rel + 1
         /\ (t.conn # NoConn) <=> (t.acq = t.rel + 1)
         /\ (t.conn # NoConn) => InScope(t)
         /\ t.pc \in {"idle", "done"} => (t.rel = t.acq /\ t.conn = NoConn)
    /\ \A p \in PoolIds : pools[p].state # "unborn" => CheckedOut(p) = HeldBy(p)

\* C1 witness: of two concurrent scoped calls, the one that was cancelled is
\* over with one acquire and one release, and the other, whose body raised,
\* is about to release: its connection is the only one checked out.
ReleaseOncePerAcquireWitness ==
    \E c, d \in Callers :
       /\ c # d
       /\ task[c].pc = "done" /\ task[c].body = "cancelled"
       /\ task[c].acq = 1 /\ task[c].rel = 1
       /\ task[d].pc = "release" /\ task[d].body = "raised"
       /\ task[d].acq = 1 /\ task[d].rel = 0
       /\ CheckedOut(task[d].pool) = {task[d].conn}

\* C2: in get_db_transaction the transaction begins at most once and ends
\* exactly once if it began; COMMIT is issued exactly when the body returned,
\* ROLLBACK exactly when it raised or was cancelled; a failed body reaches
\* the caller as a failure (a cancellation as the cancellation); and the
\* connection is held as long as the transaction is open: release comes
\* only after the transaction ended.
TransactionOnce ==
    \A c \in AllCallers :
       LET t == task[c] IN
       t.op = "tx" =>
         /\ t.txBegins <= 1
         /\ t.txEnds <= t.txBegins
         /\ (t.tx = "started") <=> (t.txBegins = 1 /\ t.txEnds = 0)
         /\ t.tx = "started" => (t.conn # NoConn /\ t.pc \in {"body", "txexit"})
         /\ t.tx \in {"committed", "failed"} => t.body = "returned"
         /\ t.tx = "rolledback" => t.body \in {"raised", "cancelled"}
         /\ t.pc \in {"release", "done"} =>
              /\ t.txEnds = t.txBegins
              /\ t.body = "returned" => t.tx \in {"committed", "failed"}
              /\ t.body \in {"raised", "cancelled"} => t.tx = "rolledback"
         /\ t.pc = "done" =>
              /\ t.body = "raised" => IsException(t.result.kind)
              /\ t.body = "cancelled" => t.result.kind = "CancelledError"
              /\ t.tx = "committed" => t.result = Returned

\* C2 witness: one transaction has committed and still holds its connection
\* while another, rolled back, has released its own and handed the failure
\* to the caller.
TransactionOnceWitness ==
    \E c, d \in Callers :
       /\ task[c].op = "tx" /\ task[c].pc = "release" /\ task[c].tx = "committed"
       /\ task[c].conn # NoConn
       /\ task[d].op = "tx" /\ task[d].pc = "done" /\ task[d].tx = "rolledback"
       /\ task[d].rel = 1 /\ task[d].result.kind = "DatabaseError"

\* The part of C3 that holds: no connection is held by two tasks and a pool
\* never has more than max_size connections, checked out or in all.
PoolUpperBounds ==
    /\ \A c, d \in AllCallers :
         (c # d /\ task[c].conn # NoConn /\ task[d].conn # NoConn
               /\ task[c].pool = task[d].pool) => task[c].conn # task[d].conn
    /\ \A p \in PoolIds :
         /\ Cardinality(HeldBy(p)) <= MAX_CONNECTIONS
         /\ Cardinality(pools[p].con) <= MAX_CONNECTIONS

\* C3: each connection is held by at most one caller, at most max_size
\* connections are checked out, and the open pool the global names (created
\* with min_size connections and probed) keeps between min_size and max_size
\* connections (idle plus checked out).
PoolWithinMinMax ==
    /\ PoolUpperBounds
    /\ \A p \in PoolIds :
         (pools[p].state = "open" /\ connection_pool = p) =>
            /\ MIN_CONNECTIONS <= Cardinality(pools[p].con)
            /\ Cardinality(pools[p].con) <= MAX_CONNECTIONS

\* C4: with more concurrent transactions than max_size, every caller
\* eventually gets a connection and completes, and at no time are more than
\* max_size connections checked out.
AllTransactionsComplete ==
    /\ \A c \in TxCallers : <>(task[c].pc = "done" /\ task[c].acq = 1 /\ task[c].rel = 1)
    /\ [](Cardinality({c \in AllCallers : task[c].conn # NoConn}) <= MAX_CONNECTIONS)

\* C4 witness: more callers than connections, and all of them are done,
\* each having held a connection, one of them with a failed body.
AllTransactionsCompleteWitness ==
    /\ Cardinality(TxCallers) > MAX_CONNECTIONS
    /\ \A c \in TxCallers : task[c].pc = "done" /\ task[c].acq = 1 /\ task[c].rel = 1
    /\ \E c \in TxCallers : task[c].body = "raised"

\* The kinds execute_with_retry names as retryable, and the others a query
\* may raise.
TransientKinds == {"PostgresConnectionError", "InterfaceError"}
NonTransientKinds == {"PostgresError", "OtherError"}
RetryDone(t) == t.op = "retry" /\ t.pc = "done"

\* C5: the query fails with a transient failure on the first k < max_retries
\* attempts and then succeeds: exactly k+1 attempts, and the result is
\* returned.
RetryTransientThenSuccess ==
    \A c \in AllCallers :
       LET t == task[c] IN
       (/\ RetryDone(t)
        /\ t.failK < t.max_retries
        /\ (t.failK = 0 \/ t.failKind \in TransientKinds))
       => (t.fetches = t.failK + 1 /\ t.result = Returned)

\* C6: a non-transient failure of the query: one attempt, no sleep, no
\* retry, and the call raises DatabaseError.
RetryNonTransientOnce ==
    \A c \in AllCallers :
       LET t == task[c] IN
       (t.op = "retry" /\ t.failK >= 1 /\ t.failKind \in NonTransientKinds)
       => /\ t.fetches <= 1
          /\ t.sleeps = <<>>
          /\ t.pc # "sleep"
          /\ t.attempt = 0
          /\ (t.pc = "done" /\ t.max_retries >= 1) =>
                (t.fetches = 1 /\ t.result.kind = "DatabaseError")

\* C6 witness: a call allowed several attempts ended after its first one,
\* which failed with a non-transient error, without sleeping.
RetryNonTransientOnceWitness ==
    \E c \in RetryCallers :
       /\ RetryDone(task[c])
       /\ task[c].max_retries >= 2 /\ task[c].failK >= 1
       /\ task[c].failKind \in NonTransientKinds
       /\ task[c].fetches = 1 /\ task[c].sleeps = <<>>
       /\ task[c].result.kind = "DatabaseError"

\* C7: every attempt fails with a transient failure and max_retries >= 1:
\* exactly max_retries attempts, then a DatabaseError that wraps the last
\* cause (directly, or through the DatabaseError of get_db_connection).
RetryExhausted ==
    \A c \in AllCallers :
       LET t == task[c] IN
       (/\ RetryDone(t)
        /\ t.max_retries >= 1
        /\ t.failK >= t.max_retries
        /\ t.failKind \in TransientKinds)
       => /\ t.fetches = t.max_retries
          /\ t.result.kind = "DatabaseError"
          /\ t.result.from \in {t.failKind, "DatabaseError"}

\* base * 2^i
RECURSIVE Doubled(_, _)
Doubled(base, i) == IF i = 0 THEN base ELSE 2 * Doubled(base, i - 1)

\* C8: the sleep after the failed attempt i (0-based) is retry_delay * 2^i.
RetryDoublingBackoff ==
    \A c \in AllCallers :
       LET t == task[c] IN
       \A i \in 1..Len(t.sleeps) : t.sleeps[i] = Doubled(t.retry_delay, i - 1)

\* C9: get_connection_pool is a singleton under concurrency: at most one
\* task runs _create_connection_pool at a time, it holds the lock, none runs
\* while a pool exists, and (as long as no pool was closed) the creation
\* succeeded at most once and every task that got a pool got the one the
\* global names.
SingletonPool ==
    /\ Cardinality({c \in AllCallers : task[c].pc \in {"creating", "probe"}}) <= 1
    /\ \A c \in AllCallers :
         task[c].pc \in {"creating", "probe"} =>
            (pool_lock = c /\ connection_pool = NoPool)
    /\ NoCloseYet =>
         /\ NumPools <= 1
         /\ \A c \in AllCallers : task[c].pool # NoPool => task[c].pool = connection_pool

\* C9 witness: two tasks called while no pool existed, one of them waited on
\* the lock, and both got the same pool, the one the global names.
SingletonPoolWitness ==
    \E c, d \in Callers :
       /\ c # d
       /\ NoCloseYet
       /\ NumPools = 1
       /\ task[d].waited
       /\ task[c].pool # NoPool
       /\ task[c].pool = task[d].pool
       /\ task[c].pool = connection_pool

\* C10: a scoped acquisition started after close_connection_pool completed
\* never obtains a connection.
ClosedPoolRejects ==
    \A c \in AllCallers :
       LET t == task[c] IN
       (t.afterClose /\ t.op \in {"conn", "tx"})
       => (t.conn = NoConn /\ t.acq = 0)

\* The MCP client under concurrent callers, for every retry_attempts.
ClientInit ==
    /\ connection_pool = NoPool
    /\ pool_lock = NoCaller
    /\ pools = [p \in PoolIds |-> UnbornPool]
    /\ task = [c \in AllCallers |-> IdleTask]
    /\ client = NewClient
    /\ settings \in [retry_attempts : 0..MaxRetryAttempts]
    /\ mtask = [c \in McpCallers |-> IdleCall]

ClientNext ==
    \/ \E c \in McpCallers : connect(c)
    \/ \E c \in McpCallers : ensure_connected(c)
    \/ \E c \in McpCallers : aenter(c)
    \/ \E c \in McpCallers : ConnectLockAcquired(c)
    \/ \E c \in McpCallers : InitializeOk(c)
    \/ \E c \in McpCallers : InitializeFail(c)
    \/ \E c \in McpCallers : ListToolsOk(c)
    \/ \E c \in McpCallers : ListToolsFail(c)
    \/ \E c \in McpCallers : BackoffElapsed(c)
    \/ \E c \in McpCallers : disconnect(c)
    \/ \E c \in McpCallers : DisconnectLockAcquired(c)
    \/ \E c \in McpCallers : SessionCloseOk(c)
    \/ \E c \in McpCallers : SessionCloseFail(c)
    \/ \E c \in McpCallers : TransportCloseOk(c)
    \/ \E c \in McpCallers : TransportCloseFail(c)
    \/ \E c \in McpCallers : call_tool(c)
    \/ \E c \in McpCallers : refresh_tools(c)
    \/ \E c \in McpCallers : RefreshOk(c)
    \/ \E c \in McpCallers : RefreshFail(c)
    \/ \E c \in McpCallers : call_tool_safe(c)
    \/ \E c \in McpCallers : get_documents_list(c)
    \/ \E c \in McpCallers : get_document_content(c)
    \/ \E c \in McpCallers : get_chat_history(c)
    \/ \E c \in McpCallers : CallToolResult(c)
    \/ \E c \in McpCallers : CallToolRaises(c)
    \/ \E c \in McpCallers : ClientReset(c)

ClientSpec == ClientInit /\ [][ClientNext]_vars

\* Concurrent connect() calls, one per task, on a new client.
ConnectInit ==
    /\ connection_pool = NoPool
    /\ pool_lock = NoCaller
    /\ pools = [p \in PoolIds |-> UnbornPool]
    /\ task = [c \in AllCallers |-> IdleTask]
    /\ client = NewClient
    /\ settings \in [retry_attempts : 0..MaxRetryAttempts]
    /\ mtask = [c \in McpCallers |-> [IdleCall EXCEPT !.oneshot = TRUE]]

ConnectNext ==
    \/ \E c \in McpCallers : connect(c)
    \/ \E c \in McpCallers : ConnectLockAcquired(c)
    \/ \E c \in McpCallers : InitializeOk(c)
    \/ \E c \in McpCallers : InitializeFail(c)
    \/ \E c \in McpCallers : ListToolsOk(c)
    \/ \E c \in McpCallers : ListToolsFail(c)
    \/ \E c \in McpCallers : BackoffElapsed(c)

ConnectSpec == ConnectInit /\ [][ConnectNext]_vars

\* MAX_CONNECTIONS + 1 tasks, one get_db_connection block each, and the
\* tasks of one MCPClient, one call each, on a healthy database and a
\* healthy server.
DeadlineInit ==
    /\ connection_pool = NoPool
    /\ pool_lock = NoCaller
    /\ pools = [p \in PoolIds |-> UnbornPool]
    /\ task = [c \in AllCallers |-> [IdleTask EXCEPT !.oneshot = TRUE]]
    /\ client = NewClient
    /\ settings = [retry_attempts |-> RETRY_ATTEMPTS]
    /\ mtask = [c \in McpCallers |-> [IdleCall EXCEPT !.oneshot = TRUE]]

\* The steps of the program and the passing of time.
DeadlineStep(c) ==
    \/ get_db_connection(c)
    \/ LockAcquired(c)
    \/ CreatePoolOk(c)
    \/ ProbeOk(c)
    \/ AcquireOk(c)
    \/ AcquireWait(c)
    \/ Release(c)

DeadlineCallStep(c) ==
    \/ connect(c)
    \/ ConnectLockAcquired(c)
    \/ InitializeOk(c)
    \/ ListToolsOk(c)
    \/ call_tool(c)
    \/ CallWait(c)

DeadlineNext ==
    \/ \E c \in TxCallers : DeadlineStep(c)
    \/ \E c \in TxCallers : BodyReturn(c)
    \/ \E c \in McpCallers : DeadlineCallStep(c)
    \/ \E c \in McpCallers : CallToolResult(c)

\* The event loop runs every task that is ready and time passes; when the
\* body of a block returns and when the server answers is not in the
\* program's hands.
DeadlineSpec ==
    /\ DeadlineInit /\ [][DeadlineNext]_vars
    /\ \A c \in TxCallers : WF_vars(DeadlineStep(c))
    /\ \A c \in McpCallers : WF_vars(DeadlineCallStep(c))

\* C12: a caller that has been blocked for MaxWait units of time, in the
\* acquire of get_db_connection with every holder checked out or in
\* call_tool with the response outstanding, is unblocked, whatever the
\* holders and the server do.
BlockedCallerUnblocked ==
    /\ \A c \in TxCallers :
          (task[c].pc = "acquire" /\ task[c].elapsed = MaxWait) ~> (task[c].pc # "acquire")
    /\ \A c \in McpCallers :
          (mtask[c].pc = "call" /\ mtask[c].elapsed = MaxWait) ~> (mtask[c].pc # "call")

\* C11: health_check never raises an Exception (only the cancellation of
\* its caller passes through): it returns True exactly when SELECT 1 came
\* back as 1 and False on every failure (of the pool creation, the acquire
\* or the query), with at most one acquire and as many releases, holding
\* nothing afterwards.
HealthCheckTotal ==
    \A c \in AllCallers :
       LET t == task[c] IN
       (t.op = "health" /\ t.pc = "done") =>
          /\ t.acq <= 1 /\ t.rel = t.acq /\ t.conn = NoConn
          /\ IF t.body = "cancelled"
             THEN t.result.kind = "CancelledError"
             ELSE /\ t.result = Returned
                  /\ t.value \in {"True", "False"}
                  /\ (t.value = "True") <=> (t.body = "returned" /\ t.fetched = "one")

\* C11 witness: a health check answered False after its query raised; it
\* acquired once, released once, and no pool has a connection checked out.
HealthCheckTotalWitness ==
    \E c \in Callers :
       /\ task[c].op = "health" /\ task[c].pc = "done"
       /\ task[c].body = "raised" /\ task[c].value = "False"
       /\ task[c].acq = 1 /\ task[c].rel = 1
       /\ \A p \in PoolIds : pools[p].state # "unborn" => CheckedOut(p) = {}

\* C13: the callers called connect() concurrently on a disconnected session
\* (all but the first were queued on the lock) and all are done: one of
\* them at most ran handshake attempts, no more than retry_attempts of
\* them, and all callers got the same outcome.
ConnectOnce ==
    (/\ \A c \in McpCallers : mtask[c].op = "connect" /\ mtask[c].pc = "done"
     /\ \E c \in McpCallers : \A d \in McpCallers \ {c} : mtask[d].queued)
    => /\ Cardinality({c \in McpCallers : mtask[c].attempts > 0}) <= 1
       /\ \A c \in McpCallers : mtask[c].attempts <= settings.retry_attempts
       /\ \A c, d \in McpCallers : mtask[c].result = mtask[d].result

\* A step in which connect(), called by c, holds the lock and makes its
\* check.
ConnectChecks(c) ==
    /\ mtask'[c].op = "connect"
    /\ mtask'[c].pc # "lockwait"
    /\ \/ mtask[c].pc = "idle"
       \/ mtask[c].pc = "lockwait" /\ mtask[c].op = "connect"

\* C14: connect() that finds the session connected (flag set, session
\* present) returns at once: no attempt, no transport opened, no handshake,
\* no catalog fetch; session, transport, flag, catalog and lock stay as
\* they are.
ConnectIdempotent ==
    [][\A c \in McpCallers :
         (ConnectChecks(c) /\ client.connected /\ client.session # "None")
         => /\ client' = client
            /\ mtask'[c].pc = "done"
            /\ mtask'[c].result = "ok"
            /\ mtask'[c].attempts = 0
            /\ mtask'[c].requests = 0]_vars

\* C14 witness: a connect() returned without any attempt on a session that
\* another task had connected, after waiting for the lock.
ConnectIdempotentWitness ==
    \E c \in McpCallers :
       /\ mtask[c].op = "connect" /\ mtask[c].pc = "done"
       /\ mtask[c].found = "connected" /\ mtask[c].attempts = 0
       /\ mtask[c].queued
       /\ client.connected /\ client.session = "initialized"
       /\ client.available_tools # {}

\* C15: a connect() that returned after one of its attempts succeeded,
\* whatever number of attempts failed before it, leaves the session
\* connected (flag set, session initialized, transport present) with the
\* catalog that this attempt's list_tools answered.
ConnectedCatalogFresh ==
    \A c \in McpCallers :
       LET t == mtask[c] IN
       (t.op = "connect" /\ t.pc = "done" /\ t.result = "ok" /\ t.attempts > 0)
       => /\ client.connected
          /\ client.session = "initialized"
          /\ client.transport = "created"
          /\ t.fetched \in Catalogs
          /\ client.available_tools = t.fetched
          /\ t.attempts <= settings.retry_attempts
          /\ Len(t.sleeps) = t.attempts - 1

\* C15 witness: retry_attempts = 3, two attempts were refused and the third
\* was accepted: connected, with the catalog fetched in the third attempt.
ConnectedCatalogFreshWitness ==
    \E c \in McpCallers :
       /\ settings.retry_attempts = 3
       /\ mtask[c].op = "connect" /\ mtask[c].pc = "done" /\ mtask[c].result = "ok"
       /\ mtask[c].attempts = 3
       /\ client.connected
       /\ client.available_tools = mtask[c].fetched
       /\ client.available_tools = {"list_documents", "get_document_content"}

\* C16: retry_attempts >= 1 and every attempt fails: connect() raises
\* MCPConnectionError after exactly retry_attempts attempts, having slept
\* 2^i after the failed attempt i except after the last, and the session is
\* not connected; no connect() makes more than retry_attempts attempts.
ConnectExhausted ==
    \A c \in McpCallers :
       LET t == mtask[c] IN
       t.op = "connect" =>
         /\ t.attempts <= settings.retry_attempts
         /\ \A i \in 1..Len(t.sleeps) : t.sleeps[i] = Doubled(1, i - 1)
         /\ (t.pc = "done" /\ t.result # "ok") =>
              /\ t.result = "MCPConnectionError"
              /\ settings.retry_attempts >= 1
              /\ t.attempts = settings.retry_attempts
              /\ Len(t.sleeps) = settings.retry_attempts - 1
              /\ ~(client.connected /\ client.session # "None")

\* C16 witness: retry_attempts = 3, three failed attempts, sleeps of 1 and
\* 2 seconds, MCPConnectionError, and the client is not connected.
ConnectExhaustedWitness ==
    \E c \in McpCallers :
       /\ settings.retry_attempts = 3
       /\ mtask[c].op = "connect" /\ mtask[c].pc = "done"
       /\ mtask[c].result = "MCPConnectionError"
       /\ mtask[c].attempts = 3 /\ mtask[c].sleeps = <<1, 2>>
       /\ ~client.connected

\* C17: the step in which a disconnect() returns leaves the client
\* disconnected (no session, no transport, empty catalog, flag down, lock
\* free) and raises nothing, whatever the state it was called in and also
\* when a close() raised; on a client that is already in that state it
\* returns in the step in which it gets the lock and changes nothing.
DisconnectTotal ==
    [][\A c \in McpCallers :
         (mtask'[c].op = "disconnect" /\ mtask'[c].pc = "done" /\ mtask[c].pc # "done")
         => /\ client' = NewClient
            /\ mtask'[c].result = "ok"
            /\ client = NewClient => mtask[c].pc \in {"idle", "lockwait"}]_vars

\* C17 witness: a disconnect() during which a close() raised has returned
\* normally, and the client is disconnected.
DisconnectTotalWitness ==
    \E c \in McpCallers :
       /\ mtask[c].op = "disconnect" /\ mtask[c].pc = "done"
       /\ mtask[c].closeRaised /\ mtask[c].result = "ok"
       /\ client = NewClient

\* C18: call_tool on a session that is not connected (flag down or no
\* session) raises MCPConnectionError in the step of the call: no request
\* is sent, no connection attempt is made, the client is left as it is.
CallToolNotConnected ==
    [][\A c \in McpCallers :
         (/\ mtask[c].pc = "idle" /\ mtask'[c].op = "call_tool"
          /\ ~(client.connected /\ client.session # "None"))
         => /\ mtask'[c].pc = "done"
            /\ mtask'[c].result = "MCPConnectionError"
            /\ mtask'[c].requests = 0
            /\ mtask'[c].attempts = 0
            /\ client' = client]_vars

\* C18 witness: a call was refused with MCPConnectionError, nothing sent,
\* while a session object exists (another task is inside connect()) but
\* the session is not connected.
CallToolNotConnectedWitness ==
    \E c, d \in McpCallers :
       /\ mtask[c].op = "call_tool" /\ mtask[c].pc = "done"
       /\ mtask[c].result = "MCPConnectionError" /\ mtask[c].requests = 0
       /\ mtask[d].op = "connect" /\ mtask[d].pc = "list_tools"
       /\ client.session = "initialized" /\ ~client.connected

\* C19: call_tool on a connected session with a name that is not in the
\* catalog raises MCPToolError in the step of the call, its message listing
\* the catalog of that moment; no request is sent, the client is left as
\* it is.
CallToolUnknown ==
    [][\A c \in McpCallers :
         (/\ mtask[c].pc = "idle" /\ mtask'[c].op = "call_tool"
          /\ client.connected /\ client.session # "None"
          /\ mtask'[c].tool \notin client.available_tools)
         => /\ mtask'[c].pc = "done"
            /\ mtask'[c].result = "MCPToolError"
            /\ mtask'[c].listing = client.available_tools
            /\ mtask'[c].requests = 0
            /\ client' = client]_vars

\* C19 witness: the catalog holds list_documents only, and a call of
\* get_document_content was refused with that list, nothing sent.
CallToolUnknownWitness ==
    \E c \in McpCallers :
       /\ mtask[c].op = "call_tool" /\ mtask[c].pc = "done"
       /\ mtask[c].tool = "get_document_content"
       /\ mtask[c].result = "MCPToolError"
       /\ mtask[c].listing = {"list_documents"}
       /\ mtask[c].requests = 0
       /\ client.connected /\ client.available_tools = {"list_documents"}

\* C20: a tool call whose answer reports a failure of the tool (isError)
\* ends with MCPToolError, never with a payload.
RemoteFailureRaises ==
    \A c \in McpCallers :
       (mtask[c].op = "call_tool" /\ mtask[c].pc = "done" /\ mtask[c].isError)
       => (mtask[c].result = "MCPToolError" /\ mtask[c].payload = "none")

\* C21: call_tool_safe never raises: it returns (True, payload, None)
\* exactly when call_tool returned payload, and (False, None, message) with
\* the message of the error exactly when call_tool raised (not connected,
\* unknown tool, failure of the call).
CallToolSafeTotal ==
    \A c \in McpCallers :
       (mtask[c].op = "call_tool" /\ mtask[c].pc = "done" /\ mtask[c].via = "call_tool_safe")
       => /\ mtask[c].ret.raised = "none"
          /\ mtask[c].result = "ok" =>
                /\ mtask[c].ret.success = "True"
                /\ mtask[c].ret.value = mtask[c].payload
                /\ mtask[c].ret.error = "None"
          /\ mtask[c].result \in {"MCPConnectionError", "MCPToolError"} =>
                /\ mtask[c].ret.success = "False"
                /\ mtask[c].ret.value = "None"
                /\ mtask[c].ret.error = mtask[c].message
                /\ mtask[c].message # "none"
          /\ mtask[c].result \in {"ok", "MCPConnectionError", "MCPToolError"}

\* C21 witness: call_tool_safe on a client that is not connected has
\* returned (False, None, "Not connected to MCP server").
CallToolSafeTotalWitness ==
    \E c \in McpCallers :
       /\ mtask[c].op = "call_tool" /\ mtask[c].pc = "done"
       /\ mtask[c].via = "call_tool_safe"
       /\ mtask[c].result = "MCPConnectionError"
       /\ mtask[c].ret = [raised |-> "none", success |-> "False", value |-> "None",
                          error |-> "Not connected to MCP server"]

\* The operations of InsuranceMCPClient that the spec calls the Domain
\* Adapter.
AdapterOps == {"get_documents_list", "get_document_content", "get_chat_history"}

\* C22: an adapter operation whose tool call failed (not connected, unknown
\* tool, failure of the call) gives its caller that error.
AdapterSurfacesErrors ==
    \A c \in McpCallers :
       (/\ mtask[c].op = "call_tool" /\ mtask[c].pc = "done"
        /\ mtask[c].via \in AdapterOps
        /\ mtask[c].result \in {"MCPConnectionError", "MCPToolError"})
       => mtask[c].ret.raised = mtask[c].result

\* C23: every pool that was created is closed exactly once: a step in
\* which a task calls close() on a pool finds that pool open (nobody has
\* called close() on it before), a pool under its probe stays under probe
\* or becomes the global, and every pool that is open or closing is the
\* pool the global names.
PoolClosedExactlyOnce ==
    [][/\ \A c \in Callers :
            (task[c].pc = "idle" /\ task'[c].pc = "closewait")
            => pools[task'[c].pool].state = "open"
       /\ \A c \in Callers :
            task[c].pc = "probe" => (task'[c].pc = "probe" \/ connection_pool' # NoPool)
       /\ \A p \in PoolIds :
            pools'[p].state \in {"open", "closing"} => connection_pool' = p]_vars

\* The tasks inside the locked part of connect() or disconnect().
InLockedPart == {c \in McpCallers : mtask[c].pc \in {"initialize", "list_tools", "backoff",
                                                    "session_close", "transport_close"}}

\* C24: at most one task is inside the locked part of connect() or
\* disconnect(), and it holds the lock; a caller that waits for the lock
\* stays where it is while the lock is held; and a waiting connect() that
\* gets the lock when the session is connected returns without an attempt
\* of its own.
ConnectMutualExclusion ==
    [][/\ Cardinality(InLockedPart) <= 1
       /\ \A c \in InLockedPart : client.connection_lock = c
       /\ \A c \in McpCallers :
            (mtask[c].pc = "lockwait" /\ client.connection_lock # NoCaller)
            => mtask'[c].pc = "lockwait"
       /\ \A c \in McpCallers :
            (/\ mtask[c].pc = "lockwait" /\ mtask[c].op = "connect"
             /\ mtask'[c].pc # "lockwait"
             /\ client.connected /\ client.session # "None")
            => /\ mtask'[c].pc = "done" /\ mtask'[c].result = "ok"
               /\ mtask'[c].attempts = 0
               /\ client' = client]_vars

\* C24 witness: one task is inside its connection attempt and holds the
\* lock while another connect() waits for it.
ConnectMutualExclusionWitness ==
    \E c, d \in McpCallers :
       /\ mtask[c].op = "connect" /\ mtask[c].pc = "list_tools"
       /\ client.connection_lock = c
       /\ mtask[d].op = "connect" /\ mtask[d].pc = "lockwait"

\* C25: when connect() has raised MCPConnectionError, the client refers to
\* no transport and to no session: what the failed attempts created has
\* been closed and dropped.
FailedConnectKeepsNothing ==
    \A c \in McpCallers :
       (/\ mtask[c].op = "connect" /\ mtask[c].pc = "done"
        /\ mtask[c].result = "MCPConnectionError")
       => (client.session = "None" /\ client.transport = "None")

\* C26: in every state, the intermediate states of connect() and
\* disconnect() included, the catalog is non-empty only while the session
\* is connected.
CatalogOnlyWhileConnected ==
    client.available_tools # {} => (client.connected /\ client.session # "None")

\* C27: the step in which a tool call on a connected session fails for a
\* broken transport leaves the session disconnected (not connected, empty
\* catalog), so that the next ensure_connected() connects again.
TransportErrorDisconnects ==
    [][\A c \in McpCallers :
         (/\ mtask[c].pc = "call" /\ mtask'[c].pc = "done"
          /\ mtask'[c].cause = "transport"
          /\ client.connected /\ client.session # "None")
         => /\ ~(client'.connected /\ client'.session # "None")
            /\ client'.available_tools = {}]_vars

\* C30: connect(), called directly, by ensure_connected() or by
\* __aenter__, returns normally only when the session is connected, for
\* every value of retry_attempts.
ConnectReturnsConnected ==
    \A c \in McpCallers :
       (/\ mtask[c].op \in {"connect", "ensure_connected"}
        /\ mtask[c].pc = "done" /\ mtask[c].result = "ok")
       => (client.connected /\ client.session # "None")

\* C28: the step in which re-querying the tools fails on a connected
\* session leaves the session disconnected and the catalog empty.
FailedRefreshDegrades ==
    [][\A c \in McpCallers :
         (/\ mtask[c].pc = "refresh" /\ mtask'[c].pc = "done"
          /\ mtask'[c].result = "MCPToolError"
          /\ client.connected /\ client.session # "None")
         => /\ ~(client'.connected /\ client'.session # "None")
            /\ client'.available_tools = {}]_vars

\* A connected client (as connect() leaves it) used by tasks that make one
\* call each, call_tool or disconnect.
ShutdownInit ==
    /\ connection_pool = NoPool
    /\ pool_lock = NoCaller
    /\ pools = [p \in PoolIds |-> UnbornPool]
    /\ task = [c \in AllCallers |-> IdleTask]
    /\ \E cat \in Catalogs :
         client = [session |-> "initialized", transport |-> "created",
                   available_tools |-> cat, connected |-> TRUE,
                   connection_lock |-> NoCaller]
    /\ settings = [retry_attempts |-> RETRY_ATTEMPTS]
    /\ mtask = [c \in McpCallers |-> [IdleCall EXCEPT !.oneshot = TRUE]]

\* The steps of a disconnect() that has been called.
ShutdownStep(c) ==
    \/ DisconnectLockAcquired(c)
    \/ SessionCloseOk(c)
    \/ SessionCloseFail(c)
    \/ TransportCloseOk(c)
    \/ TransportCloseFail(c)

ShutdownNext ==
    \/ \E c \in McpCallers : call_tool(c)
    \/ \E c \in McpCallers : disconnect(c)
    \/ \E c \in McpCallers : ShutdownStep(c)
    \/ \E c \in McpCallers : CallToolResult(c)
    \/ \E c \in McpCallers : CallToolRaises(c)

\* The event loop runs a disconnect() that is ready and close() returns or
\* raises; whether a request gets an answer or an error once the session
\* and the transport are closed is not in the program's hands.
ShutdownSpec ==
    /\ ShutdownInit /\ [][ShutdownNext]_vars
    /\ \A c \in McpCallers : WF_vars(ShutdownStep(c))

\* C29: a call_tool that is in flight when disconnect() has closed the
\* session and the transport ends, with its payload or with an error; and
\* a disconnect() that was called returns.
ShutdownCompletesCalls ==
    /\ \A c \in McpCallers :
          (/\ mtask[c].op = "call_tool" /\ mtask[c].pc = "call"
           /\ client.session = "None" /\ client.transport = "None")
          ~> (mtask[c].pc = "done")
    /\ \A c \in McpCallers :
          (mtask[c].op = "disconnect") ~> (mtask[c].pc = "done")

====
